---- MODULE Spec2Model ----
(***************************************************************************)
(* Sampling pipeline of the realtimecam clients.                           *)
(*                                                                         *)
(*  - progress-driven screen (src/unnamed/part_000): a picked video plays, *)
(*    every progress event may start a frame and an audio extraction, each *)
(*    an asynchronous sequence mkdir -> FFmpeg -> fetch -> unlink.         *)
(*  - timer-driven screen (src/unnamed/part_001): two setInterval timers   *)
(*    drive takePhoto+upload and record/stop+upload cycles.                *)
(*                                                                         *)
(* Time is counted in tenths of a second, so 1 s = 10 and 2.5 s = 25.      *)
(* One action is one run of JavaScript between two awaits: the event loop  *)
(* runs a handler or a continuation to its next await without interleaving.*)
(***************************************************************************)
EXTENDS Integers, Sequences, FiniteSets, Bags, TLC

\* ------------------------------------------------------------------ bounds
\* Largest playback position (tenths of a second) a progress event reports
\* when videos are picked one after another (Spec), and when one video is
\* played through (SpecSession).
MaxTime == 25
MaxSessionTime == 50
\* Extraction sequences that may be in flight at once in the model.
MaxSlots == 2

\* Playback positions the player reports. Spec draws them from TriggerGrid
\* (no firing, frame firings, a firing of both); SpecSession from SessionGrid,
\* which adds the values just below each threshold and two firings of each
\* modality.
TriggerGrid == {0, 10, 20, 25}
Times == {t \in 0..MaxTime : t \in TriggerGrid}
SessionGrid == {0, 10, 19, 20, 24, 25, 35, 50}
SessionTimes == {t \in 0..MaxSessionTime : t \in SessionGrid}

\* The progress events of the specification's example: 0.0, 1.0, 1.9, 2.0 s.
Scenario == <<0, 10, 19, 20>>

\* ------------------------------------------------------- program constants
\* `currentTime - lastFrameTime >= 1`, in tenths of a second.
FrameInterval == 10
\* `currentTime - lastAudioTime >= 2.5`, in tenths of a second.
AudioInterval == 25

NoVideo == "null"
\* A picked uri is either a file:// uri or a content:// uri that is copied.
PickedUris == {"file://picked.mp4", "content://picked"}
LocalCopy == "file://cache/input_video_temp.mp4"

\* Labels a backend answers with.
Classes == {"cat"}
NoClassification == "No classification"

VARIABLES
    \* ---- progress-driven screen (part_000)
    videoUri,             \* useState<string | null>(null)
    lastFrameTime,        \* useState(0)
    lastAudioTime,        \* useState(0)
    isProcessing,         \* useState(false)
    imageClassification,  \* useState('')
    audioClassification,  \* useState('')
    alerts,               \* the Alert.alert dialogs raised since the last button press
    pickPc,               \* where the pickVideo call in progress is suspended
    pickUri,              \* the uri pick() returned, while it is being copied
    seqs,                 \* bag of the captureFrame / processAudioAtTime calls in flight
    files,                \* scratch files on disk: <<kind, second>>
    \* ---- history of a session, recorded by SpecSession only
    frameFired,           \* times captureFrame was called at
    audioFired,           \* times processAudioAtTime was called at
    scen,                 \* how many events of Scenario the progress events have
                          \* been so far, -1 once they differ from it
    \* ---- timer-driven screen (part_001)
    camMounted,           \* the component is mounted
    permPc,               \* "asking" while the permission effect awaits, then "done"
    hasPermission,        \* useState(false)
    isLoading,            \* useState(true)
    device,               \* useState(null): TRUE once a back camera is set
    timersOn,             \* both setInterval timers are set and not cleared
    isRecording,          \* useRef(false)
    recorderOn,           \* the native AudioRecord is recording
    frameCalls,           \* bag of the processVideoFrame calls in flight
    audioCycles,          \* bag of the audio interval callbacks in flight
    camImageClassification,  \* useState('')
    camAudioClassification,  \* useState('')
    \* ---- manual-upload screen (App.tsx)
    appPc,                   \* where the pickImage / pickAudio call is suspended
    appMedia,                \* which of the two it is: "image" or "audio"
    processingStatus,        \* useState('')
    appIsProcessing,         \* useState(false)
    appImageClassification,  \* useState('')
    appAudioClassification,  \* useState('')
    appAlerts                \* the Alert.alert dialogs raised since the last button press

hist == <<frameFired, audioFired, scen>>

pvars == <<videoUri, lastFrameTime, lastAudioTime, isProcessing,
           imageClassification, audioClassification, alerts, pickPc, pickUri,
           seqs, files, hist>>

tvars == <<camMounted, permPc, hasPermission, isLoading, device, timersOn,
           isRecording, recorderOn, frameCalls, audioCycles,
           camImageClassification, camAudioClassification>>

avars == <<appPc, appMedia, processingStatus, appIsProcessing,
           appImageClassification, appAudioClassification, appAlerts>>

vars == <<pvars, tvars, avars>>

\* ------------------------------------------------------------------ helpers
\* Math.floor(time) of a time in seconds, the number in a scratch file name.
Floor(t) == t \div 10

\* `${framesDir}/frame_${Math.floor(time)}.jpg`, `${audioDir}/chunk_${...}.wav`
PathOf(kind, t) == <<kind, Floor(t)>>

\* captureFrame / processAudioAtTime up to their first await (the first mkdir
\* of createSubdirectories); setIsProcessing(true) is done by the caller below.
\* A call is its position (pc), its modality and the path of its sample.
StartSeq(kind, t) == [pc |-> "mkdir", kind |-> kind, path |-> PathOf(kind, t)]

One(r) == SetToBag({r})
\* The calls in flight, and how many.
Calls == BagToSet(seqs)
InFlight == BagCardinality(seqs)
\* Call r moves on to position pc.
Move(r, pc) == (seqs (-) One(r)) (+) One([r EXCEPT !.pc = pc])

\* Mutants of FrameDue: the last firing time left out of the comparison,
\* the boundary excluded, and the distance taken in either direction.
FrameDueNoLast(t, last) == t >= FrameInterval
FrameDueStrict(t, last) == t - last > FrameInterval
FrameDueEitherWay(t, last) ==
    t - last >= FrameInterval \/ last - t >= FrameInterval

\* `if (currentTime - lastFrameTime >= 1)`
FrameDue(t, last) == t - last >= FrameInterval
\* Mutant of AudioDue: the last firing time left out of the comparison.
AudioDueNoLast(t, last) == t >= AudioInterval

\* `if (currentTime - lastAudioTime >= 2.5)`
AudioDue(t, last) == t - last >= AudioInterval

\* What fetch() settles to: it resolves on every HTTP status, with a body
\* that is JSON or not, with or without a `classification` key; NetErr
\* (status 0, no response) stands for its rejection.
Bodies == {[json |-> FALSE, classification |-> "undefined"],
           [json |-> TRUE, classification |-> "undefined"]}
          \cup {[json |-> TRUE, classification |-> c] : c \in Classes}
Responses == {[status |-> s, body |-> b] : s \in {200, 500}, b \in Bodies}
NetErr == [status |-> 0, body |-> [json |-> FALSE, classification |-> "undefined"]]
FetchOutcomes == Responses \cup {NetErr}

\* `result.classification || 'No classification'`
LabelOf(body) ==
    IF body.classification \in {"undefined", ""}
    THEN NoClassification
    ELSE body.classification

\* The label a response puts on the screen; `unchanged` when response.json()
\* throws before the setter is reached.
LabelAfter(resp, unchanged) ==
    IF resp.body.json THEN LabelOf(resp.body) ELSE unchanged

\* ------------------------------------------------------------------ initial
PInit ==
    /\ videoUri = NoVideo
    /\ lastFrameTime = 0
    /\ lastAudioTime = 0
    /\ isProcessing = FALSE
    /\ imageClassification = ""
    /\ audioClassification = ""
    /\ alerts = {}
    /\ pickPc = "idle"
    /\ pickUri = NoVideo
    /\ seqs = EmptyBag
    /\ files = {}
    /\ frameFired = <<>>
    /\ audioFired = <<>>
    /\ scen = 0

\* ------------------------------------------------------------- pickVideo
\* Mutant of SelectVideo: setLastAudioTime(0) left out.
SelectVideoKeepsAudioTime(uri) ==
    /\ videoUri' = uri
    /\ audioClassification' = ""
    /\ imageClassification' = ""
    /\ lastFrameTime' = 0
    /\ lastAudioTime' = lastAudioTime
    /\ UNCHANGED hist

\* The state a successful pick leaves: lines 118-123.
SelectVideo(uri) ==
    /\ videoUri' = uri
    /\ audioClassification' = ""
    /\ imageClassification' = ""
    /\ lastFrameTime' = 0
    /\ lastAudioTime' = 0
    /\ UNCHANGED hist

PipelineUnchanged ==
    UNCHANGED <<videoUri, lastFrameTime, lastAudioTime, imageClassification,
                audioClassification, hist>>

\* The button press: pickVideo up to its first suspension. The button is
\* disabled while isProcessing, and an alert dialog is modal: it has been
\* dismissed before the button can be pressed. Off Android requestPermissions returns true
\* and pick() is called at once.
PickTap(os) ==
    /\ pickPc = "idle"
    /\ ~isProcessing
    /\ pickPc' = CASE os = "ios" -> "pick"
                   [] os = "android33" -> "perm33"
                   [] OTHER -> "permOld"
    /\ alerts' = {}
    /\ PipelineUnchanged
    /\ UNCHANGED <<isProcessing, pickUri, seqs, files>>
    /\ UNCHANGED <<tvars, avars>>

PermissionResults == {"granted", "denied", "never_ask_again"}

\* requestPermissions on Android 13+: one request, NEVER_ASK_AGAIN opens the
\* settings prompt; a rejected request ("throws") is the catch branch, which
\* returns false like a denial.
Perm33Resolved(result) ==
    /\ pickPc = "perm33"
    /\ IF result = "granted"
       THEN /\ pickPc' = "pick"
            /\ alerts' = alerts
       ELSE /\ pickPc' = "idle"
            /\ alerts' = alerts \cup {"Permission Denied"}
                         \cup (IF result = "never_ask_again"
                               THEN {"Permission Required"} ELSE {})
    /\ PipelineUnchanged
    /\ UNCHANGED <<isProcessing, pickUri, seqs, files>>
    /\ UNCHANGED <<tvars, avars>>

\* requestPermissions below Android 13: requestMultiple of READ and WRITE,
\* granted only when every result is GRANTED.
PermOldResolved(read, write) ==
    /\ pickPc = "permOld"
    /\ IF read = "granted" /\ write = "granted"
       THEN /\ pickPc' = "pick"
            /\ alerts' = alerts
       ELSE /\ pickPc' = "idle"
            /\ alerts' = alerts \cup {"Permission Denied"}
    /\ PipelineUnchanged
    /\ UNCHANGED <<isProcessing, pickUri, seqs, files>>
    /\ UNCHANGED <<tvars, avars>>

PickOutcomes == PickedUris \cup {"cancel", "empty"}

\* pick() settles: a result with a file uri is selected at once, a content
\* uri is copied first, a rejection (cancel) lands in the catch, and an empty
\* result does nothing.
PickResolved(outcome) ==
    /\ pickPc = "pick"
    /\ CASE outcome = "file://picked.mp4" ->
              /\ SelectVideo(outcome)
              /\ pickPc' = "idle"
              /\ UNCHANGED <<alerts, pickUri>>
         [] outcome = "content://picked" ->
              /\ pickPc' = "copy"
              /\ pickUri' = outcome
              /\ PipelineUnchanged
              /\ UNCHANGED alerts
         [] outcome = "cancel" ->
              /\ pickPc' = "idle"
              /\ alerts' = alerts \cup {"Failed to pick video."}
              /\ PipelineUnchanged
              /\ UNCHANGED pickUri
         [] OTHER ->
              /\ pickPc' = "idle"
              /\ PipelineUnchanged
              /\ UNCHANGED <<alerts, pickUri>>
    /\ UNCHANGED <<isProcessing, seqs, files>>
    /\ UNCHANGED <<tvars, avars>>

\* copyContentUriToLocal settles: the local copy is selected, or its
\* rejection lands in pickVideo's catch.
CopyResolved(ok) ==
    /\ pickPc = "copy"
    /\ pickPc' = "idle"
    /\ pickUri' = NoVideo
    /\ IF ok
       THEN /\ SelectVideo(LocalCopy)
            /\ UNCHANGED alerts
       ELSE /\ PipelineUnchanged
            /\ alerts' = alerts \cup {"Failed to pick video."}
    /\ UNCHANGED <<isProcessing, seqs, files>>
    /\ UNCHANGED <<tvars, avars>>

\* ------------------------------------------------------- onVideoProgress
\* One progress event of the player (the Video is mounted only with a
\* videoUri). Both checks read the state of the current render. A call that
\* fires runs synchronously to its first await: `if (!videoUri) return`,
\* setIsProcessing(true), the first mkdir. Neither check reads isProcessing.
onVideoProgress(t) ==
    LET fireFrame == FrameDue(t, lastFrameTime)
        fireAudio == AudioDue(t, lastAudioTime)
        started == (IF fireFrame THEN One(StartSeq("frame", t)) ELSE EmptyBag)
                   (+) (IF fireAudio THEN One(StartSeq("audio", t)) ELSE EmptyBag)
    IN  /\ videoUri # NoVideo
        /\ lastFrameTime' = IF fireFrame THEN t ELSE lastFrameTime
        /\ lastAudioTime' = IF fireAudio THEN t ELSE lastAudioTime
        /\ isProcessing' = IF fireFrame \/ fireAudio THEN TRUE ELSE isProcessing
        /\ InFlight + BagCardinality(started) <= MaxSlots
        /\ seqs' = seqs (+) started
        /\ UNCHANGED <<videoUri, imageClassification, audioClassification,
                       alerts, pickPc, pickUri, files>>
        /\ UNCHANGED <<tvars, avars>>

\* The history of a progress event at t, read off what the event did: a
\* firing is a new call of the modality, at its first await, for time t.
Record(t) ==
    LET started(kind) == CopiesIn(StartSeq(kind, t), seqs')
                             > CopiesIn(StartSeq(kind, t), seqs)
    IN  /\ frameFired' = IF started("frame") THEN Append(frameFired, t)
                          ELSE frameFired
        /\ audioFired' = IF started("audio") THEN Append(audioFired, t)
                          ELSE audioFired
        /\ scen' = IF scen >= 0 /\ scen < Len(Scenario) /\ t = Scenario[scen + 1]
                    THEN scen + 1 ELSE -1

\* -------------------------------------- captureFrame / processAudioAtTime
\* The two functions differ in the directory, the FFmpeg command, the
\* endpoint and the label they set; a slot's `kind` tells them apart.

\* Mutant of Finally: setIsProcessing(false) left out.
FinallyKeepsFlag(r) ==
    /\ isProcessing' = isProcessing
    /\ seqs' = seqs (-) One(r)

\* The `finally` of captureFrame / processAudioAtTime, and the call is over.
Finally(r) ==
    /\ isProcessing' = FALSE
    /\ seqs' = seqs (-) One(r)

\* createSubdirectories returns (each mkdir's failure is swallowed) and
\* FFmpegKit.execute is called.
MkdirDone(r) ==
    /\ r \in Calls /\ r.pc = "mkdir"
    /\ seqs' = Move(r, "ffmpeg")
    /\ UNCHANGED <<videoUri, lastFrameTime, lastAudioTime, isProcessing,
                   imageClassification, audioClassification, alerts, pickPc,
                   pickUri, files, hist>>
    /\ UNCHANGED <<tvars, avars>>

FFmpegOutcomes == {"success", "fail", "throws"}

\* Mutant of AfterFFmpeg: the return code is not looked at.
AfterFFmpegUnchecked(rc) == "fetch"

\* What follows the return code: ReturnCode.isSuccess -> the upload
\* (processVideoFrame / processAudioChunk up to its fetch), else log only.
AfterFFmpeg(rc) == IF rc = "success" THEN "fetch" ELSE "finally"

\* FFmpegKit.execute settles. On success the engine has written the sample
\* file and the upload request is sent; otherwise the error is logged and
\* the finally runs.
FFmpegDone(r, rc) ==
    /\ r \in Calls /\ r.pc = "ffmpeg"
    /\ files' = IF rc = "success" THEN files \cup {r.path} ELSE files
    /\ IF AfterFFmpeg(rc) = "fetch"
       THEN /\ seqs' = Move(r, "fetch")
            /\ UNCHANGED isProcessing
       ELSE Finally(r)
    /\ UNCHANGED <<videoUri, lastFrameTime, lastAudioTime,
                   imageClassification, audioClassification, alerts, pickPc,
                   pickUri, hist>>
    /\ UNCHANGED <<tvars, avars>>

\* Whether the try block of processVideoFrame / processAudioChunk gets past
\* `await response.json()`: fetch resolved and the body parsed. The status
\* is not looked at.
UploadParsed(resp) == resp # NetErr /\ resp.body.json

\* fetch settles. A parsed body sets the modality's label and unlink is
\* called; a rejected fetch or an unparsable body lands in the catch, which
\* logs, and the caller's finally runs with the file still on disk.
FetchDone(r, resp) ==
    /\ r \in Calls /\ r.pc = "fetch"
    /\ IF UploadParsed(resp)
       THEN /\ seqs' = Move(r, "unlink")
            /\ imageClassification' =
                   IF r.kind = "frame"
                   THEN LabelAfter(resp, imageClassification)
                   ELSE imageClassification
            /\ audioClassification' =
                   IF r.kind = "audio"
                   THEN LabelAfter(resp, audioClassification)
                   ELSE audioClassification
            /\ UNCHANGED isProcessing
       ELSE /\ Finally(r)
            /\ UNCHANGED <<imageClassification, audioClassification>>
    /\ UNCHANGED <<videoUri, lastFrameTime, lastAudioTime, alerts, pickPc,
                   pickUri, files, hist>>
    /\ UNCHANGED <<tvars, avars>>

\* FileSystem.unlink settles: the file is removed, or the call rejects
\* because the file is gone already and the catch logs it. Then the finally.
UnlinkDone(r) ==
    /\ r \in Calls /\ r.pc = "unlink"
    /\ files' = files \ {r.path}
    /\ Finally(r)
    /\ UNCHANGED <<videoUri, lastFrameTime, lastAudioTime,
                   imageClassification, audioClassification, alerts, pickPc,
                   pickUri, hist>>
    /\ UNCHANGED <<tvars, avars>>

\* ====================================================== timer-driven screen
\* The screen before its permission effect has settled.
TInit ==
    /\ camMounted = TRUE
    /\ permPc = "asking"
    /\ hasPermission = FALSE
    /\ isLoading = TRUE
    /\ device = FALSE
    /\ timersOn = FALSE
    /\ isRecording = FALSE
    /\ recorderOn = FALSE
    /\ frameCalls = EmptyBag
    /\ audioCycles = EmptyBag
    /\ camImageClassification = ""
    /\ camAudioClassification = ""

\* What the permission request leaves in cameraPermission / audioPermission:
\* on Android the boolean `granted[...] === GRANTED`, elsewhere the string
\* the Camera request resolves to.
PermissionValue(os, result) ==
    IF os = "android"
    THEN (IF result = "granted" THEN "true" ELSE "false")
    ELSE result

\* `cameraPermission === 'granted' && audioPermission === 'granted'`
BothGranted(cam, mic) == cam = "granted" /\ mic = "granted"

\* cameraRef.current: the Camera is rendered only past both early returns.
CameraReady == camMounted /\ ~isLoading /\ device /\ hasPermission

\* The permission effect settles. With both permissions 'granted'
\* hasPermission is set, and useCameraDevices() gives a back camera, none,
\* or throws (leaving isLoading true). The change of hasPermission re-runs
\* the timer effect: its old cleanup calls AudioRecord.stop(), then both
\* intervals are set.
CamPermissionsResolved(os, cam, mic, devs) ==
    LET granted == BothGranted(PermissionValue(os, cam), PermissionValue(os, mic))
    IN  /\ permPc = "asking"
        /\ permPc' = "done"
        /\ hasPermission' = (camMounted /\ granted)
        /\ device' = (camMounted /\ granted /\ devs = "back")
        /\ isLoading' = (granted /\ devs = "throws")
        /\ timersOn' = (camMounted /\ granted)
        /\ recorderOn' = IF camMounted /\ granted THEN FALSE ELSE recorderOn
        /\ UNCHANGED <<camMounted, isRecording, frameCalls, audioCycles,
                       camImageClassification, camAudioClassification>>
        /\ UNCHANGED <<pvars, avars>>

\* A tick of the 1 s interval: processVideoFrame up to `await takePhoto()`.
\* The callback has no guard but `if (cameraRef.current)`.
FrameTick ==
    /\ timersOn
    /\ CameraReady
    /\ BagCardinality(frameCalls) < MaxSlots
    /\ frameCalls' = frameCalls (+) One([pc |-> "photo"])
    /\ UNCHANGED <<camMounted, permPc, hasPermission, isLoading, device,
                   timersOn, isRecording, recorderOn, audioCycles,
                   camImageClassification, camAudioClassification>>
    /\ UNCHANGED <<pvars, avars>>

\* takePhoto settles: the upload request is sent, or the catch logs.
PhotoDone(c, ok) ==
    /\ c \in BagToSet(frameCalls) /\ c.pc = "photo"
    /\ frameCalls' = IF ok
                     THEN (frameCalls (-) One(c)) (+) One([pc |-> "fetch"])
                     ELSE frameCalls (-) One(c)
    /\ UNCHANGED <<camMounted, permPc, hasPermission, isLoading, device,
                   timersOn, isRecording, recorderOn, audioCycles,
                   camImageClassification, camAudioClassification>>
    /\ UNCHANGED <<pvars, avars>>

\* `setImageClassification(result.classification)`: no fallback here.
CamLabelAfter(resp, unchanged) ==
    IF resp # NetErr /\ resp.body.json THEN resp.body.classification ELSE unchanged

\* The frame upload settles.
CamFrameFetchDone(c, resp) ==
    /\ c \in BagToSet(frameCalls) /\ c.pc = "fetch"
    /\ frameCalls' = frameCalls (-) One(c)
    /\ camImageClassification' = CamLabelAfter(resp, camImageClassification)
    /\ UNCHANGED <<camMounted, permPc, hasPermission, isLoading, device,
                   timersOn, isRecording, recorderOn, audioCycles,
                   camAudioClassification>>
    /\ UNCHANGED <<pvars, avars>>

\* A tick of the 2.5 s interval: startRecording. When not recording the
\* flag is set and AudioRecord.start() awaited; when recording already,
\* startRecording returns and the 2 s timeout is set at once.
AudioTick ==
    /\ timersOn
    /\ BagCardinality(audioCycles) < MaxSlots
    /\ IF ~isRecording
       THEN /\ isRecording' = TRUE
            /\ audioCycles' = audioCycles (+) One([pc |-> "start"])
       ELSE /\ isRecording' = isRecording
            /\ audioCycles' = audioCycles (+) One([pc |-> "wait"])
    /\ UNCHANGED <<camMounted, permPc, hasPermission, isLoading, device,
                   timersOn, recorderOn, frameCalls,
                   camImageClassification, camAudioClassification>>
    /\ UNCHANGED <<pvars, avars>>

\* AudioRecord.start() settles (a rejection is logged, the flag stays set);
\* the callback goes on to set its 2 s timeout.
StartDone(c, ok) ==
    /\ c \in BagToSet(audioCycles) /\ c.pc = "start"
    /\ recorderOn' = IF ok THEN TRUE ELSE recorderOn
    /\ audioCycles' = (audioCycles (-) One(c)) (+) One([pc |-> "wait"])
    /\ UNCHANGED <<camMounted, permPc, hasPermission, isLoading, device,
                   timersOn, isRecording, frameCalls,
                   camImageClassification, camAudioClassification>>
    /\ UNCHANGED <<pvars, avars>>

\* The 2 s timeout fires (it is not cleared by the teardown): stopRecording
\* calls AudioRecord.stop() when the flag is set, else returns null and the
\* callback is over.
TimeoutFired(c) ==
    /\ c \in BagToSet(audioCycles) /\ c.pc = "wait"
    /\ audioCycles' = IF isRecording
                      THEN (audioCycles (-) One(c)) (+) One([pc |-> "stop"])
                      ELSE audioCycles (-) One(c)
    /\ UNCHANGED <<camMounted, permPc, hasPermission, isLoading, device,
                   timersOn, isRecording, recorderOn, frameCalls,
                   camImageClassification, camAudioClassification>>
    /\ UNCHANGED <<pvars, avars>>

StopOutcomes == {"file", "empty", "throws"}

\* AudioRecord.stop() settles: with a file path the flag is cleared and the
\* upload request sent; with an empty path the flag is cleared only; a
\* rejection is logged and the flag stays set.
StopDone(c, out) ==
    /\ c \in BagToSet(audioCycles) /\ c.pc = "stop"
    /\ isRecording' = IF out = "throws" THEN isRecording ELSE FALSE
    /\ recorderOn' = IF out = "throws" THEN recorderOn ELSE FALSE
    /\ audioCycles' = IF out = "file"
                      THEN (audioCycles (-) One(c)) (+) One([pc |-> "fetch"])
                      ELSE audioCycles (-) One(c)
    /\ UNCHANGED <<camMounted, permPc, hasPermission, isLoading, device,
                   timersOn, frameCalls,
                   camImageClassification, camAudioClassification>>
    /\ UNCHANGED <<pvars, avars>>

\* The audio upload settles.
CamAudioFetchDone(c, resp) ==
    /\ c \in BagToSet(audioCycles) /\ c.pc = "fetch"
    /\ audioCycles' = audioCycles (-) One(c)
    /\ camAudioClassification' = CamLabelAfter(resp, camAudioClassification)
    /\ UNCHANGED <<camMounted, permPc, hasPermission, isLoading, device,
                   timersOn, isRecording, recorderOn, frameCalls,
                   camImageClassification>>
    /\ UNCHANGED <<pvars, avars>>

\* Unmount: the timer effect's cleanup clears both intervals and calls
\* AudioRecord.stop(); calls and timeouts in flight are not cancelled.
Teardown ==
    /\ camMounted
    /\ camMounted' = FALSE
    /\ timersOn' = FALSE
    /\ recorderOn' = FALSE
    /\ UNCHANGED <<permPc, hasPermission, isLoading, device, isRecording,
                   frameCalls, audioCycles,
                   camImageClassification, camAudioClassification>>
    /\ UNCHANGED <<pvars, avars>>

\* ==================================================== manual-upload screen
\* App.tsx: two buttons, each picks one file and uploads it. Both buttons
\* are disabled while isProcessing; the permission dialog and the picker
\* cover the screen, so one pickImage / pickAudio call runs at a time.
AInit ==
    /\ appPc = "idle"
    /\ appMedia = "image"
    /\ processingStatus = ""
    /\ appIsProcessing = FALSE
    /\ appImageClassification = ""
    /\ appAudioClassification = ""
    /\ appAlerts = {}

AppMedia == {"image", "audio"}

\* A button press: pickImage / pickAudio up to its first suspension.
AppTap(media, os) ==
    /\ appPc = "idle"
    /\ ~appIsProcessing
    /\ appMedia' = media
    /\ appPc' = CASE os = "ios" -> "pick"
                  [] os = "android33" -> "perm33"
                  [] OTHER -> "permOld"
    /\ appAlerts' = {}
    /\ UNCHANGED <<processingStatus, appIsProcessing, appImageClassification,
                   appAudioClassification>>
    /\ UNCHANGED <<pvars, tvars>>

\* requestPermissions(mediaType) on Android 13+: READ_MEDIA_IMAGES or
\* READ_MEDIA_AUDIO; NEVER_ASK_AGAIN opens the settings prompt.
AppPerm33Resolved(result) ==
    /\ appPc = "perm33"
    /\ IF result = "granted"
       THEN /\ appPc' = "pick"
            /\ appAlerts' = appAlerts
       ELSE /\ appPc' = "idle"
            /\ appAlerts' = appAlerts \cup {"Permission Denied"}
                            \cup (IF result = "never_ask_again"
                                  THEN {"Permission Required"} ELSE {})
    /\ UNCHANGED <<appMedia, processingStatus, appIsProcessing,
                   appImageClassification, appAudioClassification>>
    /\ UNCHANGED <<pvars, tvars>>

\* requestPermissions below Android 13: `return result === GRANTED`.
AppPermOldResolved(result) ==
    /\ appPc = "permOld"
    /\ IF result = "granted"
       THEN /\ appPc' = "pick"
            /\ appAlerts' = appAlerts
       ELSE /\ appPc' = "idle"
            /\ appAlerts' = appAlerts \cup {"Permission Denied"}
    /\ UNCHANGED <<appMedia, processingStatus, appIsProcessing,
                   appImageClassification, appAudioClassification>>
    /\ UNCHANGED <<pvars, tvars>>

AppPickOutcomes == {"picked", "cancel", "empty"}

\* pick() settles. With a result the status line is set and uploadImage /
\* uploadAudio runs to its fetch; a rejection lands in the catch of
\* pickImage / pickAudio; an empty result does nothing.
AppPickResolved(outcome) ==
    /\ appPc = "pick"
    /\ CASE outcome = "picked" ->
              /\ appPc' = "fetch"
              /\ processingStatus' = <<"Uploading", appMedia>>
              /\ appIsProcessing' = TRUE
              /\ UNCHANGED appAlerts
         [] outcome = "cancel" ->
              /\ appPc' = "idle"
              /\ appAlerts' = appAlerts \cup {<<"Failed to pick", appMedia>>}
              /\ UNCHANGED <<processingStatus, appIsProcessing>>
         [] OTHER ->
              /\ appPc' = "idle"
              /\ UNCHANGED <<processingStatus, appIsProcessing, appAlerts>>
    /\ UNCHANGED <<appMedia, appImageClassification, appAudioClassification>>
    /\ UNCHANGED <<pvars, tvars>>

\* The upload settles: uploadImage / uploadAudio from `await fetch` to the
\* end of the finally. A parsed body sets the label from the endpoint's key
\* (`predicted_class` / `emotion`, the body's classification field here) with
\* the 'No classification' fallback; a rejected fetch or an unparsable body
\* lands in the catch, which alerts. The status is not looked at.
AppUploadDone(resp) ==
    /\ appPc = "fetch"
    /\ appPc' = "idle"
    /\ appIsProcessing' = FALSE
    /\ IF UploadParsed(resp)
       THEN /\ appImageClassification' =
                   IF appMedia = "image" THEN LabelOf(resp.body)
                   ELSE appImageClassification
            /\ appAudioClassification' =
                   IF appMedia = "audio" THEN LabelOf(resp.body)
                   ELSE appAudioClassification
            /\ processingStatus' = <<"complete", appMedia>>
            /\ UNCHANGED appAlerts
       ELSE /\ appAlerts' = appAlerts \cup {<<"Failed to upload", appMedia>>}
            /\ UNCHANGED <<processingStatus, appImageClassification,
                           appAudioClassification>>
    /\ UNCHANGED appMedia
    /\ UNCHANGED <<pvars, tvars>>

\* ------------------------------------------------------------ specification
PickStep ==
    \/ \E os \in {"ios", "android33", "android"} : PickTap(os)
    \/ \E res \in PermissionResults \cup {"throws"} : Perm33Resolved(res)
    \/ \E rd, wr \in PermissionResults : PermOldResolved(rd, wr)
    \/ \E o \in PickOutcomes : PickResolved(o)
    \/ \E ok \in BOOLEAN : CopyResolved(ok)

SeqStep ==
    \/ \E r \in Calls : MkdirDone(r)
    \/ \E r \in Calls, rc \in FFmpegOutcomes : FFmpegDone(r, rc)
    \/ \E r \in Calls, resp \in FetchOutcomes : FetchDone(r, resp)
    \/ \E r \in Calls : UnlinkDone(r)

\* The progress-driven screen: videos are picked one after another and
\* played.
Init == PInit /\ TInit /\ AInit
Next ==
    \/ PickStep
    \/ \E t \in Times : onVideoProgress(t) /\ UNCHANGED hist
    \/ SeqStep
Spec == Init /\ [][Next]_vars

\* One media session: a file video has been picked on a fresh screen and is
\* played through, with no further pick; the firings are recorded.
InitSession ==
    /\ videoUri = "file://picked.mp4"
    /\ lastFrameTime = 0
    /\ lastAudioTime = 0
    /\ isProcessing = FALSE
    /\ imageClassification = ""
    /\ audioClassification = ""
    /\ alerts = {}
    /\ pickPc = "idle"
    /\ pickUri = NoVideo
    /\ seqs = EmptyBag
    /\ files = {}
    /\ frameFired = <<>>
    /\ audioFired = <<>>
    /\ scen = 0
    /\ TInit
    /\ AInit
NextSession ==
    \/ \E t \in SessionTimes : onVideoProgress(t) /\ Record(t)
    \/ SeqStep
SpecSession == InitSession /\ [][NextSession]_vars

\* The timer-driven screen, from mount to after its unmount.
CamStep ==
    \/ \E os \in {"ios", "android"}, cam, mic \in {"granted", "denied"},
          devs \in {"back", "none", "throws"} :
              CamPermissionsResolved(os, cam, mic, devs)
    \/ FrameTick
    \/ \E c \in BagToSet(frameCalls), ok \in BOOLEAN : PhotoDone(c, ok)
    \/ \E c \in BagToSet(frameCalls), resp \in FetchOutcomes :
           CamFrameFetchDone(c, resp)
    \/ AudioTick
    \/ \E c \in BagToSet(audioCycles), ok \in BOOLEAN : StartDone(c, ok)
    \/ \E c \in BagToSet(audioCycles) : TimeoutFired(c)
    \/ \E c \in BagToSet(audioCycles), out \in StopOutcomes : StopDone(c, out)
    \/ \E c \in BagToSet(audioCycles), resp \in FetchOutcomes :
           CamAudioFetchDone(c, resp)
    \/ Teardown
InitTimer == PInit /\ TInit /\ AInit
NextTimer == CamStep
SpecTimer == InitTimer /\ [][NextTimer]_vars

\* The manual-upload screen: images and audio files are picked and uploaded
\* one after another.
AppStep ==
    \/ \E media \in AppMedia, os \in {"ios", "android33", "android"} :
           AppTap(media, os)
    \/ \E res \in PermissionResults \cup {"throws"} : AppPerm33Resolved(res)
    \/ \E res \in PermissionResults : AppPermOldResolved(res)
    \/ \E o \in AppPickOutcomes : AppPickResolved(o)
    \/ \E resp \in FetchOutcomes : AppUploadDone(resp)
InitManual == PInit /\ TInit /\ AInit
NextManual == AppStep
SpecManual == InitManual /\ [][NextManual]_vars

\* =================================================================== claims

\* ---- C1
\* C1: in the progress-driven variant at most one extraction+upload sequence
\* is in flight at any time: a progress event that arrives while one is in
\* flight starts no extraction.
C1_AtMostOneInFlight == InFlight <= 1

\* ---- C2
\* C2: within one session any two frame firings are at least 1.0 s of
\* playback time apart, the later one at the later time: no frame extraction
\* fires on a progress event less than 1.0 s after the time of an earlier
\* firing.
C2_FrameDebounce ==
    \A i, j \in DOMAIN frameFired :
        i < j => frameFired[j] - frameFired[i] >= FrameInterval

\* A session in which frames fired exactly 1.0 s apart.
C2_Witness == frameFired = <<10, 20>>

\* ---- C3
\* C3: audio extraction fires on a progress event at t only if
\* t - lastAudioTime >= 2.5 and then lastAudioTime becomes t; any two audio
\* firings of a session are at least 2.5 s apart; a step in which no audio
\* fires leaves lastAudioTime as it is and a step in which no frame fires
\* leaves lastFrameTime as it is, whatever the other modality does.
C3_AudioFires ==
    audioFired' # audioFired =>
        /\ Len(audioFired') = Len(audioFired) + 1
        /\ audioFired'[Len(audioFired')] - lastAudioTime >= AudioInterval
        /\ lastAudioTime' = audioFired'[Len(audioFired')]
C3_Independent ==
    /\ audioFired' = audioFired => lastAudioTime' = lastAudioTime
    /\ frameFired' = frameFired => lastFrameTime' = lastFrameTime
C3_Apart ==
    \A i, j \in DOMAIN audioFired :
        i < j => audioFired[j] - audioFired[i] >= AudioInterval
C3_AudioDebounce ==
    /\ [][C3_AudioFires /\ C3_Independent]_vars
    /\ []C3_Apart

\* Audio fired twice, 2.5 s apart, while frames fired on their own cadence
\* in between.
C3_Witness == audioFired = <<25, 50>> /\ frameFired = <<10, 20, 35, 50>>

\* ---- C4
\* C4: a progress event at t fires frame extraction exactly when
\* t - lastFrameTime >= 1.0; on firing, lastFrameTime is t at the end of the
\* same event handling, with the extraction it started still at its first
\* await; otherwise lastFrameTime is unchanged. For the events 0.0, 1.0,
\* 1.9, 2.0 of a fresh session the frame fires at 1.0 and 2.0 only.
C4_Decision ==
    (seqs \sqsubseteq seqs') =>    \* a progress event only ever adds calls
        \A t \in SessionTimes :
            onVideoProgress(t) =>
                IF t - lastFrameTime >= FrameInterval
                THEN /\ frameFired' = Append(frameFired, t)
                     /\ lastFrameTime' = t
                     /\ CopiesIn(StartSeq("frame", t), seqs')
                            = CopiesIn(StartSeq("frame", t), seqs) + 1
                ELSE /\ frameFired' = frameFired
                     /\ lastFrameTime' = lastFrameTime
C4_Example ==
    /\ scen \in {0, 1} => frameFired = <<>> /\ lastFrameTime = 0
    /\ scen \in {2, 3} => frameFired = <<10>> /\ lastFrameTime = 10
    /\ scen = 4 => frameFired = <<10, 20>> /\ lastFrameTime = 20
C4_Scheduling == [][C4_Decision]_vars /\ []C4_Example

\* The example's four events have been handled.
C4_Witness == scen = 4 /\ frameFired = <<10, 20>>

\* ---- C5
\* C5: a pick that returns a result sets lastFrameTime and lastAudioTime to
\* 0 and both labels to empty whatever they were, and leaves them so when
\* they are so already; a pick that is denied permission, cancelled, empty
\* or whose copy fails leaves the four unchanged.
C5_IsReset(lf, la, img, aud) == lf = 0 /\ la = 0 /\ img = "" /\ aud = ""
C5_Same ==
    UNCHANGED <<lastFrameTime, lastAudioTime, imageClassification,
                audioClassification>>
C5_Pick ==
    /\ \A o \in PickOutcomes :
           PickResolved(o) =>
               IF o = "file://picked.mp4"
               THEN C5_IsReset(lastFrameTime', lastAudioTime',
                               imageClassification', audioClassification')
               ELSE C5_Same
    /\ \A ok \in BOOLEAN :
           CopyResolved(ok) =>
               IF ok
               THEN C5_IsReset(lastFrameTime', lastAudioTime',
                               imageClassification', audioClassification')
               ELSE C5_Same
    /\ \A res \in PermissionResults \cup {"throws"} :
           Perm33Resolved(res) => C5_Same
    /\ \A rd, wr \in PermissionResults : PermOldResolved(rd, wr) => C5_Same
    /\ (pickPc \in {"pick", "copy"} /\ pickPc' = "idle"
        /\ C5_IsReset(lastFrameTime, lastAudioTime,
                      imageClassification, audioClassification))
           => C5_Same
C5_PickResets == [][C5_Pick]_vars

\* A picked video is selected after a frame upload of the video before it
\* had set the image label: the label is empty again and the frame time 0.
C5_Witness ==
    /\ pickPc = "idle"
    /\ C5_IsReset(lastFrameTime, lastAudioTime,
                  imageClassification, audioClassification)
    /\ \E r \in Calls : r.kind = "frame" /\ r.pc = "unlink"

\* ---- C6
\* C6: an upload that fails (the fetch rejects, the body does not parse, or
\* the status is not 2xx) leaves both labels unchanged, raises no alert and
\* starts no other request.
C6_UploadFailed(resp) ==
    resp = NetErr \/ ~resp.body.json \/ ~(resp.status \in 200..299)
C6_Failure ==
    \A r \in Calls, resp \in FetchOutcomes :
        (FetchDone(r, resp) /\ C6_UploadFailed(resp)) =>
            /\ imageClassification' = imageClassification
            /\ audioClassification' = audioClassification
            /\ alerts' = alerts
            /\ \A q \in BagToSet(seqs') :
                   q.pc = "fetch" => CopiesIn(q, seqs') <= CopiesIn(q, seqs)
C6_FailedUploadKeepsLabel == [][C6_Failure]_vars

\* ---- C7
\* C7: when FFmpeg returns a non-success code (or throws), the sequence
\* ends in that step: no upload request is sent, no file and no label
\* changes, no extraction is started again, and isProcessing is false.
C7_Abort ==
    \A r \in Calls, rc \in {"fail", "throws"} :
        FFmpegDone(r, rc) =>
            /\ seqs' = seqs (-) One(r)
            /\ isProcessing' = FALSE
            /\ imageClassification' = imageClassification
            /\ audioClassification' = audioClassification
            /\ files' = files
C7_ExtractionFailureAborts == [][C7_Abort]_vars

\* One frame fired, no audio did, and the frame's sequence is over with no
\* file written and no label set: it ended at the FFmpeg return code.
C7_Witness ==
    /\ frameFired = <<10>> /\ audioFired = <<>>
    /\ InFlight = 0 /\ ~isProcessing
    /\ files = {} /\ imageClassification = ""

\* ---- C8
\* C8: the file of a sample whose upload has not finished is on disk.
C8_FileLivesUntilUploaded ==
    \A r \in Calls : r.pc = "fetch" => r.path \in files

\* ---- C9
\* C9: a scratch file on disk belongs to a sequence still in flight: once a
\* sequence has finished, its sample's file is gone, whether the upload
\* succeeded or failed.
C9_NoFileLeftBehind ==
    \A p \in files : \E r \in Calls : r.path = p

\* ---- C10
\* C10: in the timer-driven variant no two capture+upload sequences of one
\* modality are in flight together: at most one processVideoFrame call and
\* at most one audio interval callback (record, stop, upload) is unfinished.
C10_NoOverlapPerModality ==
    /\ BagCardinality(frameCalls) <= 1
    /\ BagCardinality(audioCycles) <= 1

\* ---- C11
\* C11: a permission request that returns NEVER_ASK_AGAIN raises the
\* settings prompt ('Permission Required') and ends the pick there: the
\* picker is not opened, no source is selected and nothing is started; on
\* the Android 13+ branch and on the branch below it.
C11_Stopped ==
    /\ "Permission Required" \in alerts'
    /\ pickPc' = "idle"
    /\ UNCHANGED <<videoUri, seqs, files>>
C11_Permanent ==
    /\ Perm33Resolved("never_ask_again") => C11_Stopped
    /\ \A rd, wr \in PermissionResults :
           (PermOldResolved(rd, wr) /\ "never_ask_again" \in {rd, wr})
               => C11_Stopped
C11_PermanentDenialRedirects == [][C11_Permanent]_vars

\* ---- C12
\* C12: in the timer-driven variant the two interval timers are set only in
\* a step that finds both permissions granted, and once the teardown has run
\* no timer callback starts anything: no takePhoto, no AudioRecord.start and
\* no AudioRecord.stop (with the upload that follows it) is called.
C12_Initiated(pc, calls) == CopiesIn([pc |-> pc], calls)
C12_Timers ==
    /\ (timersOn' /\ ~timersOn) => hasPermission'
    /\ ~camMounted =>
           /\ C12_Initiated("photo", frameCalls')
                  <= C12_Initiated("photo", frameCalls)
           /\ \A pc \in {"start", "stop"} :
                  C12_Initiated(pc, audioCycles')
                      <= C12_Initiated(pc, audioCycles)
C12_TimersStopAtTeardown == [][C12_Timers]_vars

\* ---- C13
\* C13: in the manual-upload variant an upload that fails (the fetch
\* rejects, the body does not parse, or the status is not 2xx) raises the
\* upload error alert, leaves both labels as they were and ends with
\* isProcessing false.
C13_Failure ==
    \A resp \in FetchOutcomes :
        (AppUploadDone(resp) /\ C6_UploadFailed(resp)) =>
            /\ <<"Failed to upload", appMedia>> \in appAlerts'
            /\ appImageClassification' = appImageClassification
            /\ appAudioClassification' = appAudioClassification
            /\ appIsProcessing' = FALSE
C13_ManualFailureAlerts == [][C13_Failure]_vars

\* ---- C14
\* C14: a progress event at which both thresholds are met starts the frame
\* extraction only: no audio extraction is started by that event and
\* lastAudioTime stays, so that audio is attempted again on a later event.
C14_BothDue ==
    (seqs \sqsubseteq seqs') =>    \* a progress event only ever adds calls
        \A t \in Times :
            (/\ onVideoProgress(t)
             /\ t - lastFrameTime >= FrameInterval
             /\ t - lastAudioTime >= AudioInterval) =>
                /\ CopiesIn(StartSeq("frame", t), seqs')
                       = CopiesIn(StartSeq("frame", t), seqs) + 1
                /\ CopiesIn(StartSeq("audio", t), seqs')
                       = CopiesIn(StartSeq("audio", t), seqs)
                /\ lastAudioTime' = lastAudioTime
C14_AudioSkippedWhenBothDue == [][C14_BothDue]_vars

\* ---- C15
\* C15: a response to an upload of an earlier source does not reach the
\* labels of the new one. A firing sets the modality's last time to a
\* positive time, and a pick sets it to 0: while lastFrameTime is 0 no frame
\* of the current source has been extracted yet, so the image label is
\* empty; and likewise for audio.
C15_NoStaleLabel ==
    /\ lastFrameTime = 0 => imageClassification = ""
    /\ lastAudioTime = 0 => audioClassification = ""

\* ---- C16
\* One session in which every external call in flight eventually settles
\* (returns or throws): the steps of the sequences are weakly fair. The
\* player's events are not: playback may stop at any time.
SpecSessionFair == SpecSession /\ WF_vars(SeqStep)

\* C16: every extraction sequence that was started finishes, whatever fails
\* in it, so that from any state the pipeline comes to rest with no sequence
\* in flight; and whenever no sequence is in flight isProcessing is false.
\* Nothing a sequence does unsets the source, the one thing besides the two
\* thresholds that a progress event needs to fire: after a failure later
\* qualifying events fire as before.
C16_AtRest == InFlight = 0 => ~isProcessing
C16_Armed == videoUri # NoVideo
C16_NeverStuck ==
    /\ []C16_AtRest
    /\ []C16_Armed
    /\ (InFlight > 0) ~> (InFlight = 0)

\* Two frame sequences have run and failed, the first at its upload (its
\* file is left), the second fired after it at its FFmpeg run or upload;
\* nothing is in flight and the flag is clear.
C16_Witness ==
    /\ frameFired = <<10, 20>>
    /\ InFlight = 0 /\ ~isProcessing
    /\ imageClassification = "" /\ files = {<<"frame", 1>>}

\* ---- C17
\* C17: one sequence goes through its steps in order: isProcessing is set
\* when it starts, FFmpeg is run after the directories are made, the upload
\* request is sent only by the step in which FFmpeg returned success and
\* wrote the file, the label is set when the response is in, then the file
\* is deleted, and the step that ends the sequence clears isProcessing; and
\* isProcessing is not cleared while the sequence has not finished its
\* upload.
C17_Before(q) ==
    CASE q.pc = "ffmpeg" -> "mkdir"
      [] q.pc = "fetch" -> "ffmpeg"
      [] q.pc = "unlink" -> "fetch"
      [] OTHER -> "none"
C17_Order ==
    /\ \A q \in BagToSet(seqs') :
           CopiesIn(q, seqs') > CopiesIn(q, seqs) =>
               /\ q.pc = "mkdir" => isProcessing'
               /\ q.pc # "mkdir" =>
                      CopiesIn([q EXCEPT !.pc = C17_Before(q)], seqs')
                          < CopiesIn([q EXCEPT !.pc = C17_Before(q)], seqs)
               /\ q.pc = "fetch" => q.path \in files'
               /\ q.pc = "unlink" =>
                      IF q.kind = "frame" THEN imageClassification' # ""
                      ELSE audioClassification' # ""
    /\ BagCardinality(seqs') < BagCardinality(seqs) =>
           /\ ~isProcessing'
           /\ \E r \in Calls :
                  /\ seqs' = seqs (-) One(r)
                  /\ r.pc \in {"ffmpeg", "fetch", "unlink"}
                  /\ r.pc = "unlink" => r.path \notin files'
C17_FlagHeld ==
    \A r \in Calls : r.pc \in {"mkdir", "ffmpeg", "fetch"} => isProcessing
C17_StrictOrder == [][C17_Order]_vars /\ []C17_FlagHeld

\* ---- C18
\* C18: lastFrameTime and lastAudioTime never decrease within a session,
\* whatever order the progress events come in (backward seeks included).
\* Each changes only in a progress event's step that starts a call of its
\* modality, where it grows, or in the step of a pick that selects a new
\* source, where it becomes 0; a step of an extraction or upload leaves
\* both as they are.
C18_Selects == pickPc \in {"pick", "copy"} /\ pickPc' = "idle"
C18_Fires(kind) ==
    \E t \in Times :
        CopiesIn(StartSeq(kind, t), seqs') > CopiesIn(StartSeq(kind, t), seqs)
C18_Changes(kind, last, next) ==
    next # last =>
        \/ C18_Fires(kind) /\ next > last
        \/ C18_Selects /\ next = 0
C18_Step ==
    /\ C18_Changes("frame", lastFrameTime, lastFrameTime')
    /\ C18_Changes("audio", lastAudioTime, lastAudioTime')
    /\ (\E r \in Calls : r \notin BagToSet(seqs')
                           \/ CopiesIn(r, seqs') < CopiesIn(r, seqs))
           => UNCHANGED <<lastFrameTime, lastAudioTime>>
C18_TimesMonotone == [][C18_Step]_vars

\* Both times have advanced, the frame time twice, and every sequence has
\* finished, leaving them where the events put them.
C18_Witness ==
    /\ lastFrameTime = 20 /\ lastAudioTime = 25
    /\ InFlight = 0 /\ files # {}

\* ---- C19
\* C19: isProcessing is true in every state in which a frame or audio
\* sequence is in flight, up to and including its delete step, so the
\* Select Video button is disabled throughout; a sequence that finishes
\* does not clear the flag under another that is still running.
C19_FlagCoversEverySequence == InFlight > 0 => isProcessing

\* ---- C20
\* C20: no two sequences in flight at the same time have the same scratch
\* path: each path in use belongs to exactly one call.
C20_PathsDistinct ==
    \A r, q \in Calls :
        r.path = q.path => (r = q /\ CopiesIn(r, seqs) = 1)

\* ---- C21
\* C21: in the timer-driven variant AudioRecord.start is called only when
\* no recording is active and the 2 s timeout calls AudioRecord.stop only
\* when one is, so the two alternate; and isRecording.current is true
\* exactly from the call of start to the end of that recording, whether a
\* stop or the teardown ended it and whether start or stop failed.
C21_Called(pc) ==
    CopiesIn([pc |-> pc], audioCycles') > CopiesIn([pc |-> pc], audioCycles)
C21_Calls ==
    /\ C21_Called("start") => ~recorderOn
    /\ C21_Called("stop") => recorderOn
C21_Flag ==
    /\ recorderOn => isRecording
    /\ isRecording =>
           recorderOn \/ \E c \in BagToSet(audioCycles) : c.pc = "start"
C21_RecorderProtocol == [][C21_Calls]_vars /\ []C21_Flag

====
